---- MODULE Spec2Model ----
(***************************************************************************)
(* Chat / session controller and zoom widget of the Control Flow Graph     *)
(* Generator front end.                                                    *)
(*                                                                         *)
(*   src/static/js/script.js   the build with the zoom widget ("static")   *)
(*   src/unnamed/part_000      the build without it           ("unnamed")  *)
(*                                                                         *)
(* Text is a sequence of one-character strings; the character U+2022 is    *)
(* written Bullet.  An optional JSON field is a sequence of length 0       *)
(* (absent) or 1 (present).  currentZoom is counted in tenths, so that     *)
(* zoomStep 0.1 is 1, minZoom 0.5 is 5 and maxZoom 3 is 30.                *)
(* userInput.focus() and scrollTop have no effect on the state modelled.   *)
(***************************************************************************)
EXTENDS Integers, Sequences, FiniteSets, Bags, TLC

VARIABLES
    build,            \* which of the two source files is running
    chatMessages,     \* children of #chatMessages, in order
    userInput,        \* userInput.value
    placeholder,      \* userInput.placeholder
    repairActive,     \* repairBtn has class 'active'
    isRepairMode,     \* let isRepairMode
    metrics,          \* textContent of #nodesMetric, #edgesMetric, #cyclomaticMetric
    loading,          \* loadingOverlay does not have class 'hidden'
    sendDisabled,     \* sendBtn.disabled
    sendLabel,        \* sendBtn.innerHTML
    graphContent,     \* the image shown in the viewer: <<>> or <<payload>>
    imgScale,         \* transform scale of that image, in tenths; 0: none set
    currentZoom,      \* let currentZoom, in tenths
    zoomLevel,        \* zoomLevel.textContent, in percent
    zoomInDisabled,   \* zoomIn.disabled
    zoomOutDisabled,  \* zoomOut.disabled
    inflight,         \* bag of /generate requests awaiting their response
    clearPending,     \* number of /clear_session requests awaiting their response
    lastEvent,        \* history: the handler that ran last
    formatContent,    \* the content handed to formatMessage on its own
    formatResult      \* the markup formatMessage returned for it; <<>>: not called

vars == <<build, chatMessages, userInput, placeholder, repairActive, isRepairMode,
          metrics, loading, sendDisabled, sendLabel, graphContent, imgScale,
          currentZoom, zoomLevel, zoomInDisabled, zoomOutDisabled, inflight,
          clearPending, lastEvent, formatContent, formatResult>>

chatVars == <<chatMessages, userInput, placeholder, repairActive, isRepairMode,
              metrics, loading, sendDisabled, sendLabel>>

zoomVars == <<currentZoom, zoomLevel, zoomInDisabled, zoomOutDisabled, imgScale>>

formatVars == <<formatContent, formatResult>>

(***************************************************************************)
(* Bounds of the model.                                                    *)
(***************************************************************************)
MaxMessages == 4

MaxInFlight == 2

MaxClearPending == 1

\* Longest content handed to formatMessage on its own.
MaxFormatLen == 4

(***************************************************************************)
(* Text.                                                                   *)
(***************************************************************************)
Bullet == "BULLET"

\* String.prototype.trim: the characters it strips at both ends.
IsSpace(c) == c \in {" ", "\n", "\t", "\r"}

RECURSIVE TrimStart(_)
TrimStart(s) ==
    IF s # <<>> /\ IsSpace(Head(s)) THEN TrimStart(Tail(s)) ELSE s

RECURSIVE TrimEnd(_)
TrimEnd(s) ==
    IF s # <<>> /\ IsSpace(s[Len(s)]) THEN TrimEnd(SubSeq(s, 1, Len(s) - 1)) ELSE s

Trim(s) == TrimEnd(TrimStart(s))

\* content.split('\n'): always at least one piece.
RECURSIVE SplitLines(_)
SplitLines(s) ==
    IF \E i \in 1..Len(s) : s[i] = "\n"
    THEN LET i == CHOOSE k \in 1..Len(s) : s[k] = "\n" /\ \A j \in 1..(k - 1) : s[j] # "\n"
         IN  <<SubSeq(s, 1, i - 1)>> \o SplitLines(SubSeq(s, i + 1, Len(s)))
    ELSE <<s>>

RECURSIVE JoinLines(_)
JoinLines(ls) ==
    IF Len(ls) = 1 THEN ls[1] ELSE ls[1] \o <<"\n">> \o JoinLines(Tail(ls))

StartsWith(line, c) == line # <<>> /\ line[1] = c

\* formatLine without line.trim().
formatLine_NoTrim(raw) ==
    LET line == raw
    IN  IF StartsWith(line, Bullet) THEN [class |-> "bullet-point", text |-> line]
        ELSE IF StartsWith(line, "-") THEN [class |-> "sub-bullet", text |-> line]
        ELSE [class |-> "", text |-> line]

formatLine(raw) ==
    LET line == Trim(raw)
    IN  IF StartsWith(line, Bullet) THEN [class |-> "bullet-point", text |-> line]
        ELSE IF StartsWith(line, "-") THEN [class |-> "sub-bullet", text |-> line]
        ELSE [class |-> "", text |-> line]

formatMessage(content) ==
    LET lines == SplitLines(content)
    IN  [i \in 1..Len(lines) |-> formatLine(lines[i])]

\* The node addMessage builds: an assistant message is markup, a user message
\* is one text node.
messageDiv(content, type) ==
    [type |-> type,
     html |-> IF type = "assistant" THEN formatMessage(content)
              ELSE <<[class |-> "#text", text |-> content]>>]

addMessage(chat, content, type) == Append(chat, messageDiv(content, type))

WELCOME_MESSAGE ==
    JoinLines(<<
       <<Bullet, " ", "W", "e", "l", "c", "o", "m", "e", " ", "t", "o", " ", "t", "h", "e", " ", "C", "o", "n", "t", "r", "o", "l", " ", "F", "l", "o", "w", " ", "G", "r", "a", "p", "h", " ", "G", "e", "n", "e", "r", "a", "t", "o", "r", "!">>,
       <<>>,
       <<Bullet, " ", "K", "e", "y", " ", "F", "e", "a", "t", "u", "r", "e", "s", ":">>,
       <<" ", " ", "-", " ", "C", "r", "e", "a", "t", "e", " ", "d", "e", "t", "a", "i", "l", "e", "d", " ", "f", "l", "o", "w", " ", "d", "i", "a", "g", "r", "a", "m", "s">>,
       <<" ", " ", "-", " ", "G", "e", "t", " ", "i", "n", "s", "t", "a", "n", "t", " ", "g", "r", "a", "p", "h", " ", "m", "e", "t", "r", "i", "c", "s">>,
       <<" ", " ", "-", " ", "O", "p", "t", "i", "m", "i", "z", "e", " ", "p", "r", "o", "c", "e", "s", "s", " ", "l", "a", "y", "o", "u", "t", "s">>,
       <<" ", " ", "-", " ", "A", "n", "a", "l", "y", "z", "e", " ", "f", "l", "o", "w", " ", "c", "o", "m", "p", "l", "e", "x", "i", "t", "y">>,
       <<>>,
       <<Bullet, " ", "H", "o", "w", " ", "t", "o", " ", "U", "s", "e", ":">>,
       <<" ", " ", "-", " ", "T", "y", "p", "e", " ", "y", "o", "u", "r", " ", "p", "r", "o", "c", "e", "s", "s", " ", "d", "e", "s", "c", "r", "i", "p", "t", "i", "o", "n">>,
       <<" ", " ", "-", " ", "C", "l", "i", "c", "k", " ", "G", "e", "n", "e", "r", "a", "t", "e", " ", "t", "o", " ", "c", "r", "e", "a", "t", "e", " ", "g", "r", "a", "p", "h">>,
       <<" ", " ", "-", " ", "U", "s", "e", " ", "R", "e", "f", "i", "n", "e", " ", "f", "o", "r", " ", "i", "m", "p", "r", "o", "v", "e", "m", "e", "n", "t", "s">>,
       <<>>,
       <<Bullet, " ", "T", "r", "y", " ", "d", "e", "s", "c", "r", "i", "b", "i", "n", "g", " ", "a", " ", "s", "i", "m", "p", "l", "e", " ", "p", "r", "o", "c", "e", "s", "s", " ", "t", "o", " ", "s", "t", "a", "r", "t", "!">>
    >>)

ErrorPrefix == <<Bullet, " ", "E", "r", "r", "o", "r", ":", " ">>

PlaceholderRepair == "Describe how you'd like to improve the current graph..."

PlaceholderNormal == "Describe the process or flow you want to visualize..."

LabelGenerate == "<span class=btn-icon>send</span> Generate"

LabelGenerating == "<span class=btn-icon>busy</span> Generating..."


(***************************************************************************)
(* Zoom widget (script.js only).                                           *)
(***************************************************************************)
initialZoom == 10

zoomStep == 1

minZoom == 5

maxZoom == 30

Min(a, b) == IF a <= b THEN a ELSE b

Max(a, b) == IF a >= b THEN a ELSE b

\* Math.round(currentZoom * 100), with currentZoom in tenths.
ZoomPercent(z) == z * 10

\* updateZoom(), run with `content` in graphContent and `z` in currentZoom:
\* it writes only when graphContent holds an <img>.
\* updateZoom without the two writes of disabled.
updateZoom_NoButtons(content, z) ==
    IF content # <<>>
    THEN /\ imgScale' = z
         /\ zoomLevel' = ZoomPercent(z)
         /\ UNCHANGED <<zoomInDisabled, zoomOutDisabled>>
    ELSE UNCHANGED <<imgScale, zoomLevel, zoomInDisabled, zoomOutDisabled>>

updateZoom(content, z) ==
    IF content # <<>>
    THEN /\ imgScale' = z
         /\ zoomLevel' = ZoomPercent(z)
         /\ zoomInDisabled' = (z >= maxZoom)
         /\ zoomOutDisabled' = (z <= minZoom)
    ELSE UNCHANGED <<imgScale, zoomLevel, zoomInDisabled, zoomOutDisabled>>

\* zoomInHandler with its guard and clamp off by one step.
zoomInHandler_NoClamp ==
    IF currentZoom <= maxZoom
    THEN /\ currentZoom' = currentZoom + zoomStep
         /\ updateZoom(graphContent, currentZoom')
    ELSE UNCHANGED zoomVars

\* The listener of zoomIn's click event.
zoomInHandler ==
    IF currentZoom < maxZoom
    THEN /\ currentZoom' = Min(currentZoom + zoomStep, maxZoom)
         /\ updateZoom(graphContent, currentZoom')
    ELSE UNCHANGED zoomVars

\* The listener of zoomOut's click event.
zoomOutHandler ==
    IF currentZoom > minZoom
    THEN /\ currentZoom' = Max(currentZoom - zoomStep, minZoom)
         /\ updateZoom(graphContent, currentZoom')
    ELSE UNCHANGED zoomVars

\* A click on the + button; a disabled button dispatches no click event.
ZoomInClick ==
    /\ build = "static"
    /\ ~zoomInDisabled
    /\ zoomInHandler
    /\ lastEvent' = "zoom_in"
    /\ UNCHANGED <<build, formatVars, chatVars, graphContent, inflight, clearPending>>

\* A click on the - button.
ZoomOutClick ==
    /\ build = "static"
    /\ ~zoomOutDisabled
    /\ zoomOutHandler
    /\ lastEvent' = "zoom_out"
    /\ UNCHANGED <<build, formatVars, chatVars, graphContent, inflight, clearPending>>

ShortcutKeys == {"=", "+", "-", "a"}

\* document's keydown listener; mod is e.ctrlKey || e.metaKey.  zoomIn.click()
\* and zoomOut.click() do nothing on a disabled button.
DocKeydown(key, mod) ==
    /\ build = "static"
    /\ IF mod /\ key \in {"=", "+"} /\ ~zoomInDisabled
       THEN zoomInHandler /\ lastEvent' = "zoom_in"
       ELSE IF mod /\ key = "-" /\ ~zoomOutDisabled
       THEN zoomOutHandler /\ lastEvent' = "zoom_out"
       ELSE UNCHANGED zoomVars /\ lastEvent' = "keydown"
    /\ UNCHANGED <<build, formatVars, chatVars, graphContent, inflight, clearPending>>

WheelDeltas == {-1, 0, 1}

\* e.detail and e.wheelDelta, which a browser may leave 0.
DetailValues == {0, 1}

WheelDeltaValues == {-1, 0}

\* e.deltaY || e.detail || e.wheelDelta
WheelDelta(deltaY, detail, wheelDelta) ==
    IF deltaY # 0 THEN deltaY ELSE IF detail # 0 THEN detail ELSE wheelDelta

\* The wheel listener with the two directions exchanged.
Wheel_Reversed(mod, deltaY, detail, wheelDelta) ==
    /\ build = "static"
    /\ IF mod
       THEN LET delta == WheelDelta(deltaY, detail, wheelDelta)
            IN  /\ currentZoom' =
                      IF delta > 0 /\ currentZoom < maxZoom
                      THEN Min(currentZoom + zoomStep, maxZoom)
                      ELSE IF delta < 0 /\ currentZoom > minZoom
                      THEN Max(currentZoom - zoomStep, minZoom)
                      ELSE currentZoom
                /\ updateZoom(graphContent, currentZoom')
                /\ lastEvent' = IF delta < 0 THEN "wheel_neg"
                                ELSE IF delta > 0 THEN "wheel_pos" ELSE "wheel_none"
       ELSE UNCHANGED zoomVars /\ lastEvent' = "wheel_plain"
    /\ UNCHANGED <<build, formatVars, chatVars, graphContent, inflight, clearPending>>

\* graphImage's wheel listener.
Wheel(mod, deltaY, detail, wheelDelta) ==
    /\ build = "static"
    /\ IF mod
       THEN LET delta == WheelDelta(deltaY, detail, wheelDelta)
            IN  /\ currentZoom' =
                      IF delta < 0 /\ currentZoom < maxZoom
                      THEN Min(currentZoom + zoomStep, maxZoom)
                      ELSE IF delta > 0 /\ currentZoom > minZoom
                      THEN Max(currentZoom - zoomStep, minZoom)
                      ELSE currentZoom
                /\ updateZoom(graphContent, currentZoom')
                /\ lastEvent' = IF delta < 0 THEN "wheel_neg"
                                ELSE IF delta > 0 THEN "wheel_pos" ELSE "wheel_none"
       ELSE UNCHANGED zoomVars /\ lastEvent' = "wheel_plain"
    /\ UNCHANGED <<build, formatVars, chatVars, graphContent, inflight, clearPending>>

\* setGraphImage without the reset of currentZoom.
setGraphImage_NoReset(content) ==
    /\ graphContent' = content
    /\ UNCHANGED currentZoom
    /\ IF build = "static" /\ content # <<>>
       THEN updateZoom(content, currentZoom)
       ELSE /\ UNCHANGED <<zoomLevel, zoomInDisabled, zoomOutDisabled>>
            /\ imgScale' = 0

\* setGraphImage with the reset of currentZoom taken for every content.
setGraphImage_AlwaysReset(content) ==
    /\ graphContent' = content
    /\ IF build = "static"
       THEN /\ currentZoom' = initialZoom
            /\ IF content # <<>>
               THEN updateZoom(content, currentZoom')
               ELSE /\ UNCHANGED <<zoomLevel, zoomInDisabled, zoomOutDisabled>>
                    /\ imgScale' = 0
       ELSE /\ UNCHANGED <<currentZoom, zoomLevel, zoomInDisabled, zoomOutDisabled>>
            /\ imgScale' = 0

\* graphImage.innerHTML = content.  In script.js the setter of lines 86-95
\* runs; in part_000 the viewer's content is just replaced.
setGraphImage(content) ==
    /\ graphContent' = content
    /\ IF build = "static" /\ content # <<>>
       THEN /\ currentZoom' = initialZoom
            /\ updateZoom(content, currentZoom')
       ELSE /\ UNCHANGED <<currentZoom, zoomLevel, zoomInDisabled, zoomOutDisabled>>
            /\ imgScale' = 0


(***************************************************************************)
(* Metrics.                                                                *)
(***************************************************************************)
DigitChar(d) == <<"0", "1", "2", "3", "4", "5", "6", "7", "8", "9">>[d + 1]

\* The text a number becomes when assigned to textContent.
RECURSIVE NumberText(_)
NumberText(n) ==
    IF n < 10 THEN <<DigitChar(n)>> ELSE NumberText(n \div 10) \o <<DigitChar(n % 10)>>

\* updateMetrics writing the edge count into the nodes field and back.
updateMetrics_Swapped(data) ==
    IF data.metrics # <<>>
    THEN [nodes      |-> NumberText(data.metrics[1].edges),
          edges      |-> NumberText(data.metrics[1].nodes),
          cyclomatic |-> NumberText(data.metrics[1].cyclomatic)]
    ELSE [nodes |-> <<"-">>, edges |-> <<"-">>, cyclomatic |-> <<"-">>]

\* updateMetrics(data): the three texts it leaves in the display.
updateMetrics(data) ==
    IF data.metrics # <<>>
    THEN [nodes      |-> NumberText(data.metrics[1].nodes),
          edges      |-> NumberText(data.metrics[1].edges),
          cyclomatic |-> NumberText(data.metrics[1].cyclomatic)]
    ELSE [nodes |-> <<"-">>, edges |-> <<"-">>, cyclomatic |-> <<"-">>]

(***************************************************************************)
(* The environment: what the user types and what the server answers.       *)
(***************************************************************************)
InputTexts == { <<>>, <<" ">>, <<" ", "a", "\n">> }

ErrorTexts == { <<"b", "a", "d">>, <<"n", "o", " ", "\n", "-", "y">> }

FailureTexts == { <<"n", "e", "t">> }

AssistantText == <<Bullet, "o", "k", "\n", " ", "-", "x">>

MetricsA == [nodes |-> 3, edges |-> 12, cyclomatic |-> 1]

MetricsB == [nodes |-> 10, edges |-> 4, cyclomatic |-> 2]

NoFields == [error |-> <<>>, chat_history |-> <<>>, cfg_image |-> <<>>, metrics |-> <<>>]

HistoryA == << [type |-> "user", content |-> <<"a">>],
               [type |-> "assistant", content |-> AssistantText] >>

HistoryU == << [type |-> "user", content |-> <<"a">>] >>

Responses ==
    { [NoFields EXCEPT !.chat_history = <<HistoryA>>, !.cfg_image = <<"pngA">>,
                       !.metrics = <<MetricsA>>],
      [NoFields EXCEPT !.chat_history = <<HistoryU>>, !.cfg_image = <<"">>,
                       !.metrics = <<MetricsB>>],
      [NoFields EXCEPT !.chat_history = << <<>> >>, !.cfg_image = <<"pngB">>],
      NoFields,
      [NoFields EXCEPT !.error = << <<>> >>, !.metrics = <<MetricsA>>] }
    \cup { [NoFields EXCEPT !.error = <<e>>, !.chat_history = <<HistoryA>>,
                            !.cfg_image = <<"pngA">>, !.metrics = <<MetricsA>>]
           : e \in ErrorTexts }

ClearStatuses == {"success", "error"}

\* JavaScript truthiness of an optional string field.
TruthyText(f) == f # <<>> /\ f[1] # <<>>

TruthyString(f) == f # <<>> /\ f[1] # ""

\* String(!isRepairMode).
BoolText_Negated(b) == IF b THEN "false" ELSE "true"

\* String(isRepairMode), as FormData.append stores it.
BoolText(b) == IF b THEN "true" ELSE "false"

InFlightCount == BagCardinality(inflight)

\* Bound of the model: a request is submitted only while every pending
\* response still fits the transcript.
CanSubmit ==
    /\ InFlightCount < MaxInFlight
    /\ Len(chatMessages) + 2 * (InFlightCount + 1) <= MaxMessages

(***************************************************************************)
(* Initial state: the page after the DOMContentLoaded listener has run.    *)
(***************************************************************************)
\* What the page's HTML may hold in #chatMessages.
HtmlChats == { <<>>, <<messageDiv(WELCOME_MESSAGE, "assistant")>> }

\* initializeUIChat adding the welcome message without looking at the transcript.
initializeUIChat_AlwaysAdd(b, chat) ==
    addMessage(chat, WELCOME_MESSAGE, "assistant")

\* part_000's initializeUI adds the welcome message to an empty transcript;
\* script.js's does not.
initializeUIChat(b, chat) ==
    IF b = "unnamed" /\ Len(chat) = 0
    THEN addMessage(chat, WELCOME_MESSAGE, "assistant")
    ELSE chat

\* The page's HTML is not part of the sources: it is taken to show the
\* normal placeholder, the Generate label, a hidden loading overlay and an
\* enabled send button, and to hold in #chatMessages what HtmlChats lists.
InitUI ==
    /\ build \in {"static", "unnamed"}
    /\ chatMessages \in { initializeUIChat(build, h) : h \in HtmlChats }
    /\ userInput = <<>>
    /\ placeholder = PlaceholderNormal
    /\ repairActive = FALSE
    /\ isRepairMode = FALSE
    /\ metrics = updateMetrics(NoFields)
    /\ loading = FALSE
    /\ sendDisabled = FALSE
    /\ sendLabel = LabelGenerate
    /\ graphContent = <<>>
    /\ imgScale = 0
    /\ currentZoom = initialZoom
    /\ zoomLevel = ZoomPercent(initialZoom)
    /\ zoomInDisabled = FALSE
    /\ zoomOutDisabled = FALSE
    /\ inflight = EmptyBag
    /\ clearPending = 0
    /\ lastEvent = "init"

Init == InitUI /\ formatContent = <<>> /\ formatResult = <<>>

(***************************************************************************)
(* Chat handlers.                                                          *)
(***************************************************************************)
\* The user edits the input field.
TypeInput(v) ==
    /\ userInput' = v
    /\ lastEvent' = "input"
    /\ UNCHANGED <<build, formatVars, chatMessages, placeholder, repairActive, isRepairMode,
                   metrics, loading, sendDisabled, sendLabel, graphContent,
                   zoomVars, inflight, clearPending>>

\* generateGraph with the guard testing the raw value instead of the trimmed one.
generateGraph_NoTrim ==
    IF userInput = <<>>
    THEN /\ lastEvent' = "generate_noop"
         /\ UNCHANGED <<loading, sendDisabled, sendLabel, inflight>>
    ELSE /\ loading' = TRUE
         /\ sendDisabled' = TRUE
         /\ sendLabel' = LabelGenerating
         /\ inflight' = inflight (+) SetToBag({[user_input |-> Trim(userInput),
                                                is_repair  |-> BoolText(isRepairMode)]})
         /\ lastEvent' = "generate_submit"

\* generateGraph that leaves the send button enabled.
generateGraph_NoDisable ==
    LET input == Trim(userInput)
    IN  IF input = <<>>
        THEN /\ lastEvent' = "generate_noop"
             /\ UNCHANGED <<loading, sendDisabled, sendLabel, inflight>>
        ELSE /\ loading' = TRUE
             /\ sendDisabled' = sendDisabled
             /\ sendLabel' = LabelGenerating
             /\ inflight' = inflight (+) SetToBag({[user_input |-> input,
                                                    is_repair  |-> BoolText(isRepairMode)]})
             /\ lastEvent' = "generate_submit"

\* generateGraph() up to its first await.
generateGraph ==
    LET input == Trim(userInput)
    IN  IF input = <<>>
        THEN /\ lastEvent' = "generate_noop"
             /\ UNCHANGED <<loading, sendDisabled, sendLabel, inflight>>
        ELSE /\ loading' = TRUE
             /\ sendDisabled' = TRUE
             /\ sendLabel' = LabelGenerating
             /\ inflight' = inflight (+) SetToBag({[user_input |-> input,
                                                    is_repair  |-> BoolText(isRepairMode)]})
             /\ lastEvent' = "generate_submit"

\* A click on the send button; a disabled button dispatches no click event.
SendClick ==
    /\ ~sendDisabled
    /\ Trim(userInput) # <<>> => CanSubmit
    /\ generateGraph
    /\ UNCHANGED <<build, formatVars, chatMessages, userInput, placeholder, repairActive,
                   isRepairMode, metrics, graphContent, zoomVars, clearPending>>

\* userInput's keydown listener, for the Enter key.
EnterKey(shiftKey) ==
    /\ Trim(userInput) # <<>> /\ ~shiftKey => CanSubmit
    /\ IF ~shiftKey
       THEN generateGraph
       ELSE /\ lastEvent' = "shift_enter"
            /\ UNCHANGED <<loading, sendDisabled, sendLabel, inflight>>
    /\ UNCHANGED <<build, formatVars, chatMessages, userInput, placeholder, repairActive,
                   isRepairMode, metrics, graphContent, zoomVars, clearPending>>

\* generateFinally leaving the send control disabled.
generateFinally_KeepDisabled ==
    /\ loading' = FALSE
    /\ UNCHANGED sendDisabled
    /\ sendLabel' = LabelGenerate

\* The finally block of generateGraph.
generateFinally ==
    /\ loading' = FALSE
    /\ sendDisabled' = FALSE
    /\ sendLabel' = LabelGenerate

\* generateCatch showing the bare error text, without the "• Error: " prefix.
generateCatch_NoPrefix(text) ==
    /\ chatMessages' = addMessage(chatMessages, text, "assistant")
    /\ UNCHANGED <<userInput, metrics, graphContent, zoomVars>>

\* The catch block of generateGraph, entered with error.message = text.
generateCatch(text) ==
    /\ chatMessages' = addMessage(chatMessages, ErrorPrefix \o text, "assistant")
    /\ UNCHANGED <<userInput, metrics, graphContent, zoomVars>>

\* successChat appending the last history entry whatever its tag.
successChat_AnyLast(req, data) ==
    LET chat1 == addMessage(chatMessages, req.user_input, "user")
    IN  IF data.chat_history # <<>> /\ Len(data.chat_history[1]) > 0
        THEN LET h == data.chat_history[1]
             IN  addMessage(chat1, h[Len(h)].content, "assistant")
        ELSE chat1

\* The transcript after the success path's addMessage calls.
successChat(req, data) ==
    LET chat1 == addMessage(chatMessages, req.user_input, "user")
    IN  IF data.chat_history # <<>> /\ Len(data.chat_history[1]) > 0
        THEN LET h == data.chat_history[1]
                 lastMessage == h[Len(h)]
             IN  IF lastMessage.type = "assistant"
                 THEN addMessage(chat1, lastMessage.content, "assistant")
                 ELSE chat1
        ELSE chat1

\* GenerateResponse with the user message appended before the error check.
GenerateResponse_UserFirst(req, data) ==
    /\ BagIn(req, inflight)
    /\ inflight' = inflight (-) SetToBag({req})
    /\ IF TruthyText(data.error)
       THEN /\ chatMessages' = addMessage(addMessage(chatMessages, req.user_input, "user"),
                                          ErrorPrefix \o data.error[1], "assistant")
            /\ UNCHANGED <<userInput, metrics, graphContent, zoomVars>>
            /\ lastEvent' = "generate_error"
       ELSE /\ chatMessages' = successChat(req, data)
            /\ IF TruthyString(data.cfg_image)
               THEN setGraphImage(<<data.cfg_image[1]>>)
               ELSE UNCHANGED <<graphContent, zoomVars>>
            /\ IF data.metrics # <<>>
               THEN metrics' = updateMetrics(data)
               ELSE UNCHANGED metrics
            /\ userInput' = <<>>
            /\ lastEvent' = IF TruthyString(data.cfg_image)
                            THEN "generate_success_img" ELSE "generate_success"
    /\ generateFinally
    /\ UNCHANGED <<build, formatVars, placeholder, repairActive, isRepairMode, clearPending>>

\* generateGraph() from the moment response.json() has resolved with data.
GenerateResponse(req, data) ==
    /\ BagIn(req, inflight)
    /\ inflight' = inflight (-) SetToBag({req})
    /\ IF TruthyText(data.error)
       THEN /\ generateCatch(data.error[1])
            /\ lastEvent' = "generate_error"
       ELSE /\ chatMessages' = successChat(req, data)
            /\ IF TruthyString(data.cfg_image)
               THEN setGraphImage(<<data.cfg_image[1]>>)
               ELSE UNCHANGED <<graphContent, zoomVars>>
            /\ IF data.metrics # <<>>
               THEN metrics' = updateMetrics(data)
               ELSE UNCHANGED metrics
            /\ userInput' = <<>>
            /\ lastEvent' = IF TruthyString(data.cfg_image)
                            THEN "generate_success_img" ELSE "generate_success"
    /\ generateFinally
    /\ UNCHANGED <<build, formatVars, placeholder, repairActive, isRepairMode, clearPending>>

\* generateGraph() from the moment fetch or response.json() has rejected.
GenerateFail(req, text) ==
    /\ BagIn(req, inflight)
    /\ inflight' = inflight (-) SetToBag({req})
    /\ generateCatch(text)
    /\ lastEvent' = "generate_fail"
    /\ generateFinally
    /\ UNCHANGED <<build, formatVars, placeholder, repairActive, isRepairMode, clearPending>>

\* What the repair button's click listener makes of the flag, the button's
\* active class and the placeholder.
repairToggle(r) ==
    [isRepairMode |-> ~r.isRepairMode,
     repairActive |-> ~r.repairActive,
     placeholder  |-> IF ~r.isRepairMode THEN PlaceholderRepair ELSE PlaceholderNormal]

RepairState ==
    [isRepairMode |-> isRepairMode, repairActive |-> repairActive,
     placeholder |-> placeholder]

\* The repair button's click listener.
RepairClick ==
    /\ isRepairMode' = repairToggle(RepairState).isRepairMode
    /\ repairActive' = repairToggle(RepairState).repairActive
    /\ placeholder' = repairToggle(RepairState).placeholder
    /\ lastEvent' = "repair"
    /\ UNCHANGED <<build, formatVars, chatMessages, userInput, metrics, loading, sendDisabled,
                   sendLabel, graphContent, zoomVars, inflight, clearPending>>

\* clearChat() up to its first await.
ClearClick ==
    /\ clearPending < MaxClearPending
    /\ clearPending' = clearPending + 1
    /\ lastEvent' = "clear_submit"
    /\ UNCHANGED <<build, formatVars, chatVars, graphContent, zoomVars, inflight>>

\* initializeUI(), run with `chat` in #chatMessages.
initializeUI(chat) ==
    /\ repairActive' = FALSE
    /\ isRepairMode' = FALSE
    /\ metrics' = updateMetrics(NoFields)
    /\ chatMessages' = initializeUIChat(build, chat)

\* clearSuccess resetting the zoom and the placeholder as well.
clearSuccess_ResetAll ==
    /\ graphContent' = <<>>
    /\ imgScale' = 0
    /\ currentZoom' = initialZoom
    /\ zoomLevel' = ZoomPercent(initialZoom)
    /\ zoomInDisabled' = FALSE
    /\ zoomOutDisabled' = FALSE
    /\ userInput' = <<>>
    /\ initializeUI(addMessage(<<>>, WELCOME_MESSAGE, "assistant"))

\* The body of clearChat's `if (data.status === 'success')`.
clearSuccess ==
    /\ setGraphImage(<<>>)
    /\ userInput' = <<>>
    /\ initializeUI(addMessage(<<>>, WELCOME_MESSAGE, "assistant"))

\* ClearResponse taking every status for success.
ClearResponse_AnyStatus(status) ==
    /\ clearPending > 0
    /\ clearPending' = clearPending - 1
    /\ clearSuccess
    /\ lastEvent' = "clear_success"
    /\ UNCHANGED <<placeholder, loading, sendDisabled, sendLabel>>
    /\ UNCHANGED <<build, formatVars, inflight>>

\* clearChat() from the moment response.json() has resolved with {status}.
ClearResponse(status) ==
    /\ clearPending > 0
    /\ clearPending' = clearPending - 1
    /\ IF status = "success"
       THEN /\ clearSuccess
            /\ lastEvent' = "clear_success"
            /\ UNCHANGED <<placeholder, loading, sendDisabled, sendLabel>>
       ELSE /\ lastEvent' = "clear_other"
            /\ UNCHANGED <<chatVars, graphContent, zoomVars>>
    /\ UNCHANGED <<build, formatVars, inflight>>

\* clearChat() from the moment fetch or response.json() has rejected.
ClearFail ==
    /\ clearPending > 0
    /\ clearPending' = clearPending - 1
    /\ lastEvent' = "clear_fail"
    /\ UNCHANGED <<build, formatVars, chatVars, graphContent, zoomVars, inflight>>

(***************************************************************************)
(* Specifications.                                                         *)
(***************************************************************************)
Requests == { [user_input |-> Trim(v), is_repair |-> BoolText(b)] :
              v \in InputTexts, b \in BOOLEAN }

\* Every event of the chat and session controller.
NextChat ==
    \/ \E v \in InputTexts : TypeInput(v)
    \/ SendClick
    \/ \E shiftKey \in BOOLEAN : EnterKey(shiftKey)
    \/ \E req \in Requests, data \in Responses : GenerateResponse(req, data)
    \/ \E req \in Requests, text \in FailureTexts : GenerateFail(req, text)
    \/ RepairClick
    \/ ClearClick
    \/ \E status \in ClearStatuses : ClearResponse(status)
    \/ ClearFail

\* The responses with which the viewer is exercised: one carrying an image
\* and one carrying none.
ViewerResponses == { d \in Responses : d.error = <<>> /\ d.cfg_image \in {<<>>, <<"pngB">>} }

ViewerInputs == { v \in InputTexts : Trim(v) # <<>> }

\* Every event of the zoom widget, with the events that write the viewer:
\* a /generate response and a successful clear.
NextZoom ==
    \/ ZoomInClick
    \/ ZoomOutClick
    \/ \E key \in ShortcutKeys, mod \in BOOLEAN : DocKeydown(key, mod)
    \/ \E mod \in BOOLEAN, deltaY \in WheelDeltas, detail \in DetailValues,
          wheelDelta \in WheelDeltaValues : Wheel(mod, deltaY, detail, wheelDelta)
    \/ \E v \in ViewerInputs : TypeInput(v)
    \/ SendClick
    \/ \E req \in Requests, data \in ViewerResponses : GenerateResponse(req, data)
    \/ ClearClick
    \/ ClearResponse("success")

\* The events that write the session state (isRepairMode, currentZoom,
\* loading): button clicks, a /generate response and a successful clear.
NextSession ==
    \/ ZoomInClick
    \/ ZoomOutClick
    \/ RepairClick
    \/ \E v \in ViewerInputs : TypeInput(v)
    \/ SendClick
    \/ \E req \in Requests, data \in ViewerResponses : GenerateResponse(req, data)
    \/ ClearClick
    \/ ClearResponse("success")

\* The characters of the contents formatMessage is exercised with.
FormatChars == {Bullet, "-", " ", "\n", "a"}

FormatTexts == UNION { [1..n -> FormatChars] : n \in 0..MaxFormatLen }

\* The page is loaded and formatMessage is about to be called on a content.
InitFormat == InitUI /\ formatContent \in FormatTexts /\ formatResult = <<>>

\* formatMessage(content), its result kept.
FormatMessage ==
    /\ formatResult' = formatMessage(formatContent)
    /\ lastEvent' = "format"
    /\ UNCHANGED <<build, chatVars, graphContent, zoomVars, inflight, clearPending,
                   formatContent>>

NextFormat == FormatMessage

Next == NextChat \/ NextZoom \/ NextSession \/ NextFormat

Spec == Init /\ [][Next]_vars

SpecChat == Init /\ [][NextChat]_vars

SpecZoom == Init /\ [][NextZoom]_vars


SpecSession == Init /\ [][NextSession]_vars

SpecFormat == InitFormat /\ [][NextFormat]_vars

\* A /generate request resolves or rejects.
Respond ==
    \/ \E req \in Requests, data \in Responses : GenerateResponse(req, data)
    \/ \E req \in Requests, text \in FailureTexts : GenerateFail(req, text)

\* SpecChat under the assumption that every /generate request eventually
\* resolves or rejects.
FairSpecChat == SpecChat /\ WF_vars(Respond)

(***************************************************************************)
(* Zoom claims.                                                            *)
(***************************************************************************)
ZoomInSteps == {"zoom_in", "wheel_neg"}

ZoomOutSteps == {"zoom_out", "wheel_pos"}

\* C1: currentZoom always lies in 5..30 tenths (0.5 to 3.0); every zoom-in
\* step (click, shortcut, wheel) sets it to min(zoom + 0.1, 3.0) and every
\* zoom-out step to max(zoom - 0.1, 0.5).
C1_ZoomBounds ==
    /\ [](currentZoom \in 5..30)
    /\ [][/\ lastEvent' \in ZoomInSteps =>
                currentZoom' = (IF currentZoom + 1 <= 30 THEN currentZoom + 1 ELSE 30)
          /\ lastEvent' \in ZoomOutSteps =>
                currentZoom' = (IF currentZoom - 1 >= 5 THEN currentZoom - 1 ELSE 5)]_vars

\* C1's case: zoom-in steps have driven the zoom of a displayed image to 3.0.
C1_Witness ==
    lastEvent \in ZoomInSteps /\ currentZoom = 30 /\ graphContent # <<>>

\* C2: right after a /generate response carrying cfg_image has been handled,
\* currentZoom is 1.0, the zoom display reads 100% and both zoom buttons are
\* enabled.
C2_ZoomResetOnImage ==
    lastEvent = "generate_success_img" =>
        /\ graphContent # <<>>
        /\ currentZoom = 10
        /\ zoomLevel = 100
        /\ ~zoomInDisabled
        /\ ~zoomOutDisabled

\* C2's case: the build with the zoom widget has just rendered a new image.
C2_Witness ==
    lastEvent = "generate_success_img" /\ build = "static" /\ imgScale = 10

\* C3: in every state the zoom-in button is disabled exactly when currentZoom
\* is 3.0 and the zoom-out button exactly when it is 0.5, with or without an
\* image in the viewer.
C3_ButtonsDisabledExactlyAtBounds ==
    build = "static" =>
        /\ zoomInDisabled <=> (currentZoom = 30)
        /\ zoomOutDisabled <=> (currentZoom = 5)

(***************************************************************************)
(* Generate claims.                                                        *)
(***************************************************************************)
\* Empty or whitespace-only text.
Blank(s) == \A i \in 1..Len(s) : s[i] \in {" ", "\n", "\t", "\r"}

GenerateCalls == {"generate_noop", "generate_submit"}

\* C4: a generate call (send click, Enter without Shift) made while the input
\* is blank sends no request, appends no message and leaves the loading
\* indicator, the send control, the image, the metrics and the input as they
\* were.
C4_BlankInputIsNoOp ==
    [][(lastEvent' \in GenerateCalls /\ Blank(userInput)) =>
          UNCHANGED <<inflight, chatMessages, loading, sendDisabled, sendLabel,
                      graphContent, imgScale, metrics, userInput>>]_vars

\* C4's case: generate was called on a whitespace-only input.
C4_Witness ==
    lastEvent = "generate_noop" /\ userInput # <<>> /\ Blank(userInput)


\* A /generate response whose error field holds the text e, and one whose
\* error field holds a non-empty text.
HasError(data) == data.error # <<>>

HasNonEmptyError(data) == data.error # <<>> /\ Len(data.error[1]) > 0

\* The assistant message that reads "• Error: e", for a one-line text e.
ErrorMessage(e) ==
    [type |-> "assistant",
     html |-> <<[class |-> "bullet-point", text |-> ErrorPrefix \o e]>>]

UserMessage(text) ==
    [type |-> "user", html |-> <<[class |-> "#text", text |-> text]>>]

\* C5 as stated: handling a response that carries an error field with text E
\* appends exactly one assistant message reading "• Error: E" and updates
\* neither the image nor the metrics nor the input field.
C5_ErrorFieldSurfaced ==
    [][\A req \in Requests, data \in Responses :
          (GenerateResponse(req, data) /\ HasError(data)) =>
              /\ chatMessages' = Append(chatMessages, ErrorMessage(data.error[1]))
              /\ UNCHANGED <<graphContent, imgScale, currentZoom, metrics, userInput>>]_vars

\* C5 amended: handling a response whose error field is a non-empty text E
\* appends exactly one assistant message, the rendering of "• Error: E" by
\* formatMessage (one element per line, each line trimmed), and updates
\* neither the image nor the metrics nor the input field.  An empty error
\* text is falsy and takes the success path.
C5_NonEmptyErrorSurfaced ==
    [][\A req \in Requests, data \in Responses :
          (GenerateResponse(req, data) /\ HasNonEmptyError(data)) =>
              /\ chatMessages' = Append(chatMessages,
                                        [type |-> "assistant",
                                         html |-> formatMessage(ErrorPrefix \o data.error[1])])
              /\ UNCHANGED <<graphContent, imgScale, currentZoom, metrics, userInput>>]_vars

\* C5's case: an error response has been handled while text was in the input
\* field, and "• Error: bad" closes the transcript.
C5_Witness ==
    /\ lastEvent = "generate_error"
    /\ chatMessages[Len(chatMessages)] = ErrorMessage(<<"b", "a", "d">>)
    /\ userInput # <<>>

\* C6 as stated: for a response carrying an error field the transcript gains
\* the submitted input as a user message, followed by the error message.
C6_UserMessageBeforeError ==
    [][\A req \in Requests, data \in Responses :
          (GenerateResponse(req, data) /\ HasNonEmptyError(data)) =>
              chatMessages' = chatMessages \o
                  <<UserMessage(req.user_input),
                    [type |-> "assistant",
                     html |-> formatMessage(ErrorPrefix \o data.error[1])]>>]_vars

\* C6 amended: the error is thrown before the user message is appended, so the
\* transcript gains the error message alone and no user message.
C6_NoUserMessageOnError ==
    [][\A req \in Requests, data \in Responses :
          (GenerateResponse(req, data) /\ HasNonEmptyError(data)) =>
              /\ Len(chatMessages') = Len(chatMessages) + 1
              /\ SubSeq(chatMessages', 1, Len(chatMessages)) = chatMessages
              /\ chatMessages'[Len(chatMessages')].type = "assistant"
              /\ UserMessage(req.user_input) # chatMessages'[Len(chatMessages')]]_vars

\* C6's case: an error response has been handled and the message before the
\* error message is not a user message.
C6_Witness ==
    /\ lastEvent = "generate_error"
    /\ Len(chatMessages) >= 2
    /\ chatMessages[Len(chatMessages) - 1].type = "assistant"

Completions ==
    {"generate_success", "generate_success_img", "generate_error", "generate_fail"}

Idle == ~loading /\ ~sendDisabled /\ sendLabel = LabelGenerate

\* C7 as stated (its safety part): a generate call whose request resolved or
\* rejected ends with loading hidden and send enabled and labelled Generate,
\* and while a request has not resolved loading is shown and send is disabled.
C7_HungRequestKeepsLoading ==
    /\ lastEvent \in Completions => Idle
    /\ InFlightCount > 0 => (loading /\ sendDisabled)

\* C7 amended: every generate call whose request resolves or rejects ends
\* Idle; a transport or parse failure appends exactly the one message
\* "• Error: <text>"; if every request eventually resolves or rejects, a
\* pending request always leads to Idle; and loading is hidden and send
\* re-enabled by nothing but the completion of a generate call, which may be
\* another call than the one still pending.
C7_GenerateAlwaysFinishes ==
    /\ [](lastEvent \in Completions => Idle)
    /\ [][\A req \in Requests, text \in FailureTexts :
             GenerateFail(req, text) =>
                 chatMessages' = Append(chatMessages, ErrorMessage(text))]_vars
    /\ [][((loading /\ ~loading') \/ (sendDisabled /\ ~sendDisabled')) =>
             lastEvent' \in Completions]_vars
    /\ (InFlightCount > 0) ~> Idle

\* C7's case: a failed request has been handled, the UI is Idle and another
\* request is still pending.
C7_Witness ==
    lastEvent = "generate_fail" /\ Idle /\ InFlightCount > 0

(***************************************************************************)
(* Clear claims.                                                           *)
(***************************************************************************)
MetricsPlaceholder == [nodes |-> <<"-">>, edges |-> <<"-">>, cyclomatic |-> <<"-">>]

\* C8: right after a successful clear the transcript is exactly the welcome
\* message, with role assistant, the three metrics read "-", the viewer and
\* the input field are empty and the repair flag is false.
C8_ClearLeavesWelcomeOnly ==
    lastEvent = "clear_success" =>
        /\ Len(chatMessages) = 1
        /\ chatMessages[1].type = "assistant"
        /\ chatMessages[1].html = formatMessage(WELCOME_MESSAGE)
        /\ Len(chatMessages[1].html) = 14
        /\ metrics = MetricsPlaceholder
        /\ graphContent = <<>>
        /\ userInput = <<>>
        /\ ~isRepairMode

\* C8's case: a clear has succeeded in the build whose initializeUI looks at
\* the transcript, with requests still pending.
C8_Witness ==
    lastEvent = "clear_success" /\ build = "unnamed" /\ InFlightCount > 0

\* C9 as stated: after a successful clear isRepairMode is false, currentZoom
\* is 1.0 with the display at 100% and both zoom buttons enabled, loading is
\* false and the placeholder is the non-repair text.
C9_ClearResetsSessionState ==
    lastEvent = "clear_success" =>
        /\ ~isRepairMode
        /\ currentZoom = 10
        /\ zoomLevel = 100
        /\ ~zoomInDisabled
        /\ ~zoomOutDisabled
        /\ ~loading
        /\ placeholder = PlaceholderNormal

\* C9 amended: a successful clear sets isRepairMode to false and removes the
\* repair button's active class; currentZoom, the zoom display, the zoom
\* buttons, the loading indicator and the placeholder keep their values.
C9_ClearResetsRepairOnly ==
    [][lastEvent' = "clear_success" =>
          /\ ~isRepairMode'
          /\ ~repairActive'
          /\ UNCHANGED <<currentZoom, zoomLevel, zoomInDisabled, zoomOutDisabled,
                         loading, placeholder>>]_vars

\* C9's case: a clear has succeeded with the zoom off 1.0, the repair
\* placeholder showing and a request loading.
C9_Witness ==
    /\ lastEvent = "clear_success"
    /\ currentZoom # 10
    /\ placeholder = PlaceholderRepair
    /\ loading

\* C10: a /clear_session response with another status than "success", or a
\* failed request or parse, changes nothing of the UI and appends no message.
C10_FailedClearChangesNothing ==
    [][((\E status \in ClearStatuses \ {"success"} : ClearResponse(status)) \/ ClearFail) =>
          UNCHANGED <<chatMessages, graphContent, imgScale, userInput, metrics,
                      isRepairMode, repairActive, placeholder, currentZoom, zoomLevel,
                      zoomInDisabled, zoomOutDisabled, loading, sendDisabled,
                      sendLabel>>]_vars

\* C10's case: a clear has failed while the UI held a transcript, an image,
\* metrics and the repair mode.
C10_Witness ==
    /\ lastEvent \in {"clear_other", "clear_fail"}
    /\ Len(chatMessages) > 1
    /\ graphContent # <<>>
    /\ metrics # MetricsPlaceholder
    /\ isRepairMode


(***************************************************************************)
(* Repair mode.                                                            *)
(***************************************************************************)
\* C11: from every reachable state, two consecutive clicks on the repair
\* button return the repair flag, the button's active class and the
\* placeholder to the values they had before the two clicks.
C11_TwoRepairClicksRestore ==
    repairToggle(repairToggle(RepairState)) = RepairState


(***************************************************************************)
(* Metrics and transcript.                                                 *)
(***************************************************************************)
\* A /generate response that takes the success path.
Succeeds(data) == ~HasNonEmptyError(data)

\* The three texts that show the metrics m.
MetricsDisplay(m) ==
    [nodes |-> NumberText(m.nodes), edges |-> NumberText(m.edges),
     cyclomatic |-> NumberText(m.cyclomatic)]

\* C12 as stated: after a successful /generate response has been handled the
\* display shows that response's metrics, or "-" three times when the
\* response carries none.
C12_MetricsReplacedWholesale ==
    [][\A req \in Requests, data \in Responses :
          (GenerateResponse(req, data) /\ Succeeds(data)) =>
              metrics' = IF data.metrics # <<>>
                         THEN MetricsDisplay(data.metrics[1])
                         ELSE MetricsPlaceholder]_vars

\* C12 amended: a successful response that carries metrics replaces all three
\* displayed values by its own; one that carries none leaves the display as
\* it was, so the values of an earlier response stay.
C12_MetricsReplacedIfPresent ==
    [][\A req \in Requests, data \in Responses :
          (GenerateResponse(req, data) /\ Succeeds(data)) =>
              IF data.metrics # <<>>
              THEN metrics' = MetricsDisplay(data.metrics[1])
              ELSE UNCHANGED metrics]_vars

\* C12's case: the response that carries the image pngB and no metrics has
\* been handled, and the display still shows an earlier response's metrics.
C12_Witness ==
    /\ lastEvent = "generate_success_img"
    /\ graphContent = <<"pngB">>
    /\ metrics = MetricsDisplay(MetricsB)


IsPrefix(a, b) == Len(a) <= Len(b) /\ SubSeq(b, 1, Len(a)) = a

\* The messages a successful response adds: the user message, then the last
\* entry of chat_history if there is one and it is tagged assistant.
SuccessMessages(req, data) ==
    LET h == IF data.chat_history = <<>> THEN <<>> ELSE data.chat_history[1]
    IN  <<UserMessage(req.user_input)>> \o
        (IF h # <<>> /\ h[Len(h)].type = "assistant"
         THEN <<[type |-> "assistant", html |-> formatMessage(h[Len(h)].content)]>>
         ELSE <<>>)

\* C13: across every step but the handling of a successful clear the old
\* transcript is a prefix of the new one; a successful generate appends the
\* user message and then, only if the last entry of chat_history is tagged
\* assistant, that entry's content as an assistant message.
C13_TranscriptAppendOnly ==
    /\ [][lastEvent' # "clear_success" => IsPrefix(chatMessages, chatMessages')]_vars
    /\ [][\A req \in Requests, data \in Responses :
             (GenerateResponse(req, data) /\ Succeeds(data)) =>
                 chatMessages' = chatMessages \o SuccessMessages(req, data)]_vars

\* C13's case: a successful response whose history ends with a user entry has
\* been handled: the transcript, already holding messages, ends with the user
\* message.
C13_Witness ==
    /\ lastEvent = "generate_success"
    /\ Len(chatMessages) >= 3
    /\ chatMessages[Len(chatMessages)].type = "user"
    /\ metrics = MetricsDisplay(MetricsB)


\* ---------------------------------------------------------------------
\* Wheel zoom
\* ---------------------------------------------------------------------

\* The values of lastEvent the wheel listener leaves.
WheelEvents == {"wheel_neg", "wheel_pos", "wheel_none", "wheel_plain"}

\* C14 as stated: with ctrl/cmd held a positive deltaY zooms in by one step
\* capped at maxZoom and a negative deltaY zooms out by one step capped at
\* minZoom; without ctrl/cmd the zoom is unchanged.
C14_WheelDownZoomsIn ==
    [][lastEvent' \in WheelEvents =>
       \A dy \in WheelDeltas, d \in DetailValues, w \in WheelDeltaValues :
          /\ (dy > 0 /\ Wheel(TRUE, dy, d, w)) =>
                 currentZoom' = Min(currentZoom + zoomStep, maxZoom)
          /\ (dy < 0 /\ Wheel(TRUE, dy, d, w)) =>
                 currentZoom' = Max(currentZoom - zoomStep, minZoom)
          /\ Wheel(FALSE, dy, d, w) => currentZoom' = currentZoom]_vars

\* C14 amended: with ctrl/cmd held a negative deltaY (wheel-up) zooms in by
\* one step capped at maxZoom and a positive deltaY (wheel-down) zooms out by
\* one step capped at minZoom; without ctrl/cmd the zoom is unchanged.
C14_WheelUpZoomsIn ==
    [][lastEvent' \in WheelEvents =>
       \A dy \in WheelDeltas, d \in DetailValues, w \in WheelDeltaValues :
          /\ (dy < 0 /\ Wheel(TRUE, dy, d, w)) =>
                 currentZoom' = Min(currentZoom + zoomStep, maxZoom)
          /\ (dy > 0 /\ Wheel(TRUE, dy, d, w)) =>
                 currentZoom' = Max(currentZoom - zoomStep, minZoom)
          /\ Wheel(FALSE, dy, d, w) => currentZoom' = currentZoom]_vars

\* C14's case: a wheel event with ctrl/cmd and a negative delta has just moved
\* the zoom of a displayed image from its initial value one step up.
C14_Witness ==
    /\ lastEvent = "wheel_neg"
    /\ graphContent # <<>>
    /\ currentZoom = initialZoom + zoomStep
    /\ imgScale = currentZoom


(***************************************************************************)
(* Message formatting.                                                     *)
(***************************************************************************)
\* The positions that bound the lines of c: before its first character, its
\* newlines, and after its last character.
Breaks(c) == {0, Len(c) + 1} \cup { i \in 1..Len(c) : c[i] = "\n" }

NthBreak(c, k) ==
    CHOOSE b \in Breaks(c) : Cardinality({ x \in Breaks(c) : x < b }) = k

LineCount(c) == Cardinality(Breaks(c)) - 1

\* The k-th newline-separated line of c.
Line(c, k) == SubSeq(c, NthBreak(c, k - 1) + 1, NthBreak(c, k) - 1)

\* The text l without the whitespace before its first and after its last
\* character that is not whitespace.
Stripped(l) ==
    LET ink == { i \in 1..Len(l) : l[i] \notin {" ", "\n", "\t", "\r"} }
    IN  IF ink = {} THEN <<>>
        ELSE SubSeq(l, CHOOSE i \in ink : \A j \in ink : i <= j,
                       CHOOSE i \in ink : \A j \in ink : i >= j)

\* The element for the text t: bullet-styled, sub-bullet or plain by its
\* first character.
Element(t) ==
    [class |-> IF t # <<>> /\ t[1] = Bullet THEN "bullet-point"
               ELSE IF t # <<>> /\ t[1] = "-" THEN "sub-bullet"
               ELSE "",
     text |-> t]

\* C15 as stated: formatMessage maps n newline-separated lines to n elements
\* in order, each styled by the first character of its line and carrying the
\* line's text.
C15_ElementsCarryLines ==
    formatResult # <<>> =>
        /\ Len(formatResult) = LineCount(formatContent)
        /\ \A k \in 1..Len(formatResult) :
              formatResult[k] = Element(Line(formatContent, k))

\* C15 amended: formatMessage maps n newline-separated lines to n elements in
\* order, each styled by the first character of its line after the
\* whitespace around the line is trimmed, and carrying that trimmed text.
C15_ElementsCarryTrimmedLines ==
    formatResult # <<>> =>
        /\ Len(formatResult) = LineCount(formatContent)
        /\ \A k \in 1..Len(formatResult) :
              formatResult[k] = Element(Stripped(Line(formatContent, k)))

\* C15's case: a content of two lines, the first an indented '-' line, has
\* been formatted into a sub-bullet element and one more element.
C15_Witness ==
    /\ Len(formatResult) = 2
    /\ formatContent[1] = " "
    /\ formatResult[1].class = "sub-bullet"
    /\ LineCount(formatContent) = 2


(***************************************************************************)
(* Requests in flight.                                                     *)
(***************************************************************************)
\* C16: a submitted /generate request carries as is_repair the value of the
\* repair flag at that moment; no later step rewrites a pending request
\* (steps only add the submitted request or take completed ones away); the
\* flag changes only by a repair click or a successful clear, and a
\* successful clear leaves it false, so the next request submitted without a
\* repair click in between carries "false".
C16_IsRepairFixedAtSubmit ==
    /\ [][lastEvent' = "generate_submit" =>
             inflight' = inflight (+)
                 SetToBag({[user_input |-> Stripped(userInput),
                            is_repair  |-> IF isRepairMode THEN "true" ELSE "false"]})]_vars
    /\ [][lastEvent' # "generate_submit" =>
             /\ inflight' \sqsubseteq inflight
             /\ lastEvent' \notin Completions => inflight' = inflight]_vars
    /\ [][isRepairMode' # isRepairMode => lastEvent' \in {"repair", "clear_success"}]_vars
    /\ [][lastEvent' = "clear_success" => ~isRepairMode']_vars

\* C16's case: a request submitted in repair mode is still pending, a clear
\* has since reset the flag, and a second request has just been submitted
\* carrying "false".
C16_Witness ==
    /\ lastEvent = "generate_submit"
    /\ ~isRepairMode
    /\ \E r \in BagToSet(inflight) : r.is_repair = "true"
    /\ \E r \in BagToSet(inflight) : r.is_repair = "false"


(***************************************************************************)
(* Viewer and zoom widget.                                                 *)
(***************************************************************************)
\* C17: the clear path, which sets the viewer content to the empty string,
\* empties the viewer and leaves currentZoom, the zoom-level display and the
\* disabled state of both zoom buttons as they were.
C17_ClearBypassesZoomReset ==
    [][lastEvent' = "clear_success" =>
          /\ graphContent' = <<>>
          /\ UNCHANGED <<currentZoom, zoomLevel, zoomInDisabled, zoomOutDisabled>>]_vars

\* C17's case: the viewer has just been cleared of an image that was zoomed
\* to 3.0; the display still reads 300% and zoom-in is still disabled.
C17_Witness ==
    /\ lastEvent = "clear_success"
    /\ build = "static"
    /\ graphContent = <<>>
    /\ currentZoom = maxZoom
    /\ zoomLevel = 300
    /\ zoomInDisabled


(***************************************************************************)
(* Overlapping requests.                                                   *)
(***************************************************************************)
Locked == loading /\ sendDisabled

\* C18 as stated: in every reachable state with a /generate request in flight
\* the loading indicator is shown and the send control is disabled.
C18_InFlightImpliesLocked == InFlightCount > 0 => Locked

\* C18 amended: submitting a request shows the loading indicator and disables
\* the send control; a state with requests in flight and the indicator hidden
\* or the control enabled arises only from the completion of one of several
\* requests that were pending together, the later of them submitted with the
\* Enter key past the disabled send control.
C18_LockedUntilFirstCompletion ==
    /\ [][lastEvent' = "generate_submit" => Locked']_vars
    /\ [][(C18_InFlightImpliesLocked /\ InFlightCount' > 0 /\ ~Locked') =>
             (lastEvent' \in Completions /\ InFlightCount >= 2)]_vars
    /\ [][(SendClick /\ lastEvent' = "generate_submit") => ~sendDisabled]_vars

\* C18's case: two requests were pending together, one has been answered, and
\* the other is in flight with the indicator hidden and the control enabled.
C18_Witness ==
    /\ lastEvent \in {"generate_success", "generate_success_img"}
    /\ InFlightCount = 1
    /\ ~loading
    /\ ~sendDisabled


\* C19: whenever the viewer of the build with the zoom widget shows an image,
\* the image's scale is currentZoom, the display reads currentZoom as a
\* percentage, zoom-in is disabled exactly at 3.0 or above and zoom-out
\* exactly at 0.5 or below.
C19_WidgetMatchesZoomWhileImageShown ==
    (build = "static" /\ graphContent # <<>>) =>
        /\ imgScale = currentZoom
        /\ zoomLevel = currentZoom * 10
        /\ zoomInDisabled <=> (currentZoom >= 30)
        /\ zoomOutDisabled <=> (currentZoom <= 5)

\* C19's case: zoom-out steps have taken a displayed image down to 0.5, where
\* zoom-out is disabled and the display reads 50%.
C19_Witness ==
    /\ graphContent # <<>>
    /\ lastEvent \in ZoomOutSteps
    /\ currentZoom = minZoom
    /\ zoomOutDisabled
    /\ zoomLevel = 50


(***************************************************************************)
(* Responses that arrive after a clear.                                    *)
(***************************************************************************)
\* C20: a response to a request submitted before a successful clear never
\* repopulates the cleared transcript, viewer or metrics.  A request whose
\* completion is the very next step after the clear was submitted before it,
\* so that completion must leave the three as the clear left them.
C20_StaleResponseIgnored ==
    [][(lastEvent = "clear_success" /\ lastEvent' \in Completions) =>
          UNCHANGED <<chatMessages, graphContent, metrics>>]_vars

====
